---------------------------- MODULE Spec2Model ----------------------------
(***************************************************************************)
(* Model of src/main.py: a Discord webhook relay.  A webhook message in    *)
(* the input channel is parsed (parse_account_data), enriched by one HTTP  *)
(* GET to the stats API (fetch_donutsmp_stats, format_playtime,            *)
(* format_balance) and republished to the output channel with an           *)
(* AccountView of two buttons.  The process also runs a liveness HTTP      *)
(* server (start_webserver) beside the gateway connection (main).          *)
(*                                                                         *)
(* Text is modelled as sequences of one-character strings, so that         *)
(* formatting and pattern matching are computed character by character.    *)
(***************************************************************************)
EXTENDS Integers, Sequences, FiniteSets, TLC

VARIABLES
    \* format_playtime / format_balance applied to drawn inputs
    fmtSec, fmtMoney, fmtPlayOut, fmtBalOut, fmtViaFetch,
    \* parse_account_data applied to a drawn message body
    pBody, pParsed,
    \* one call of fetch_donutsmp_stats
    fPc, fResp, fGets, fResult,
    \* the bot: delivered messages, their handlers, the output channel, clicks
    inbox, hs, output, outFound, lastReveal, clicks,
    \* the process: environment, startup, liveness server, gateway
    env, ppc, abortedBy, web, gw, health

fmtVars   == <<fmtSec, fmtMoney, fmtPlayOut, fmtBalOut, fmtViaFetch>>
parseVars == <<pBody, pParsed>>
fetchVars == <<fPc, fResp, fGets, fResult>>
relayVars == <<inbox, hs, output, outFound, lastReveal, clicks>>
procVars  == <<env, ppc, abortedBy, web, gw, health>>
vars      == <<fmtVars, parseVars, fetchVars, relayVars, procVars>>

(***************************************************************************)
(* Characters and text                                                     *)
(***************************************************************************)
DigitChars == <<"0", "1", "2", "3", "4", "5", "6", "7", "8", "9">>

DigitChar(d) == DigitChars[d + 1]

IsDigit(c) == \E d \in 0..9 : DigitChars[d + 1] = c

DigitValue(c) == CHOOSE d \in 0..9 : DigitChars[d + 1] = c

Whitespace == {" ", "\n", "\t"}

UpperChars == <<"A", "B", "C", "D", "E", "F", "G", "H", "I", "J", "K", "L", "M",
                "N", "O", "P", "Q", "R", "S", "T", "U", "V", "W", "X", "Y", "Z">>

LowerChars == <<"a", "b", "c", "d", "e", "f", "g", "h", "i", "j", "k", "l", "m",
                "n", "o", "p", "q", "r", "s", "t", "u", "v", "w", "x", "y", "z">>

\* re.IGNORECASE compares letters by their case-folded form
Lower(c) ==
    IF \E k \in 1..26 : UpperChars[k] = c
    THEN LowerChars[CHOOSE k \in 1..26 : UpperChars[k] = c]
    ELSE c

Upper(c) ==
    IF \E k \in 1..26 : LowerChars[k] = c
    THEN UpperChars[CHOOSE k \in 1..26 : LowerChars[k] = c]
    ELSE c

LowerText(s) == [k \in 1..Len(s) |-> Lower(s[k])]

UpperText(s) == [k \in 1..Len(s) |-> Upper(s[k])]

\* the literal "Unknown" returned by the formatters and by the fetch
Unknown == <<"U", "n", "k", "n", "o", "w", "n">>

(***************************************************************************)
(* JSON values as Python sees them after response.json()                   *)
(***************************************************************************)
JNull       == [t |-> "null"]
JInt(n)     == [t |-> "int", v |-> n]
\* a float with one decimal digit, held in tenths: JFloat(15) is 1.5
JFloat(n)   == [t |-> "float", tenths |-> n]
\* a float beyond the double range: json.loads("1e999") is inf
JInf        == [t |-> "inf"]
JNan        == [t |-> "nan"]
\* an integer beyond the double range (10**400): float() cannot hold it
JHuge       == [t |-> "hugeint"]
JStr(s)     == [t |-> "str", s |-> s]
JBool(b)    == [t |-> "bool", b |-> b]
JList(n)    == [t |-> "list", n |-> n]
JObj(m)     == [t |-> "obj", m |-> m]

\* Python truth value, as tested by "not data", "if stats" and "or"
Truthy(j) ==
    CASE j.t = "null"    -> FALSE
      [] j.t = "int"     -> j.v /= 0
      [] j.t = "float"   -> j.tenths /= 0
      [] j.t = "inf"     -> TRUE
      [] j.t = "nan"     -> TRUE
      [] j.t = "hugeint" -> TRUE
      [] j.t = "str"     -> Len(j.s) > 0
      [] j.t = "bool"    -> j.b
      [] j.t = "list"    -> j.n > 0
      [] j.t = "obj"     -> DOMAIN j.m /= {}

\* dict.get(key): None when the key is absent
DictGet(obj, key) == IF key \in DOMAIN obj.m THEN obj.m[key] ELSE JNull

\* a or b
PyOr(a, b) == IF Truthy(a) THEN a ELSE b


(***************************************************************************)
(* str(n), format(n, ","), float(x), int(x)                                *)
(***************************************************************************)
RECURSIVE Digits(_)
\* str(n) for n >= 0: the decimal digits, most significant first
Digits(n) ==
    IF n < 10 THEN <<DigitChar(n)>>
    ELSE Digits(n \div 10) \o <<DigitChar(n % 10)>>

RECURSIVE GroupDigits(_)
\* the "," option of the format mini-language: a comma before every group of
\* three digits counted from the right
GroupDigits(d) ==
    IF Len(d) <= 3 THEN d
    ELSE GroupDigits(SubSeq(d, 1, Len(d) - 3)) \o <<",">> \o SubSeq(d, Len(d) - 2, Len(d))

\* f"{n:,}" for n >= 0
FormatComma(n) == GroupDigits(Digits(n))

\* division rounding toward zero, as int() truncates a float
TruncDiv(a, b) == IF a >= 0 THEN a \div b ELSE -((-a) \div b)

Finite(n)   == [exc |-> "", kind |-> "finite", trunc |-> n]
NonFinite(k) == [exc |-> "", kind |-> k, trunc |-> 0]
Raised(e)   == [exc |-> e, kind |-> "none", trunc |-> 0]

\* leading and trailing whitespace removed, as float(str) does
RECURSIVE Strip(_)
Strip(s) ==
    IF s = <<>> THEN s
    ELSE IF Head(s) \in Whitespace THEN Strip(Tail(s))
    ELSE IF s[Len(s)] \in Whitespace THEN Strip(SubSeq(s, 1, Len(s) - 1))
    ELSE s

RECURSIVE DigitsValue(_)
\* the number a run of digits denotes
DigitsValue(d) ==
    IF d = <<>> THEN 0
    ELSE 10 * DigitsValue(SubSeq(d, 1, Len(d) - 1)) + DigitValue(d[Len(d)])

AllDigits(s) == \A k \in 1..Len(s) : IsDigit(s[k])

\* float(text): optional sign, then "inf", "infinity", "nan" in any case, or
\* digits with an optional fraction; anything else is a ValueError.  (The
\* exponent form is accepted by Python too; no input drawn here uses it.)
IsNegative(s) == s /= <<>> /\ Head(s) = "-"

Unsigned(s) == IF s /= <<>> /\ Head(s) \in {"-", "+"} THEN Tail(s) ELSE s

Signed(neg, n) == IF neg THEN -n ELSE n

DotPositions(body) == {k \in 1..Len(body) : body[k] = "."}

\* digits "." digits, one side possibly empty; int() keeps the whole part
FloatOfFraction(neg, body, k) ==
    IF /\ AllDigits(SubSeq(body, 1, k - 1))
       /\ AllDigits(SubSeq(body, k + 1, Len(body)))
       /\ Len(body) > 1
    THEN Finite(Signed(neg, DigitsValue(SubSeq(body, 1, k - 1))))
    ELSE Raised("ValueError")

FloatOfBody(neg, body) ==
    IF LowerText(body) \in {<<"i", "n", "f">>,
                            <<"i", "n", "f", "i", "n", "i", "t", "y">>}
      THEN NonFinite("inf")
    ELSE IF LowerText(body) = <<"n", "a", "n">> THEN NonFinite("nan")
    ELSE IF body /= <<>> /\ AllDigits(body) THEN Finite(Signed(neg, DigitsValue(body)))
    ELSE IF Cardinality(DotPositions(body)) = 1
      THEN FloatOfFraction(neg, body, CHOOSE k \in DotPositions(body) : TRUE)
    ELSE Raised("ValueError")

PyFloatStr(text) == FloatOfBody(IsNegative(Strip(text)), Unsigned(Strip(text)))

\* int(float(x)): float() of the raw value, then the truncation of int().
\* float(list), float(dict), float(None) raise TypeError; float of an integer
\* beyond the double range and int(inf) raise OverflowError; int(nan) raises
\* ValueError.
IntOfParsed(f) ==
    IF f.exc /= "" THEN f
    ELSE IF f.kind = "inf" THEN Raised("OverflowError")
    ELSE IF f.kind = "nan" THEN Raised("ValueError")
    ELSE f

PyIntOfFloat(j) ==
    CASE j.t = "int"     -> Finite(j.v)
      [] j.t = "float"   -> Finite(TruncDiv(j.tenths, 10))
      [] j.t = "bool"    -> Finite(IF j.b THEN 1 ELSE 0)
      [] j.t = "inf"     -> Raised("OverflowError")
      [] j.t = "nan"     -> Raised("ValueError")
      [] j.t = "hugeint" -> Raised("OverflowError")
      [] j.t = "str"     -> IntOfParsed(PyFloatStr(j.s))
      [] OTHER           -> Raised("TypeError")

(***************************************************************************)
(* format_playtime, format_balance                                         *)
(***************************************************************************)
\* what a call gives back: a returned text, or an exception left uncaught
Returns(text) == [exc |-> "", val |-> text]
Throws(e)     == [exc |-> e, val |-> <<>>]

\* the exceptions the formatters' except clause names
FormatCaught == {"ValueError", "TypeError"}

\* a slip in the minutes: the seconds left in the minute, not the minutes
MinutesOf_Mutant(seconds_int) == seconds_int % 60

\* (seconds_int % 3600) // 60
MinutesOf(seconds_int) == (seconds_int % 3600) \div 60

\* seconds_int // 3600
HoursOf(seconds_int) == seconds_int \div 3600

\* f"{hours:,}h {minutes}m"
PlaytimeText(hours, minutes) ==
    FormatComma(hours) \o <<"h", " ">> \o Digits(minutes) \o <<"m">>

\* f"${balance_int:,}"
BalanceText(balance_int) == <<"$">> \o FormatComma(balance_int)

\* format_playtime after the conversion c = int(float(seconds)): the except
\* clause, then the branch on seconds_int > 0
PlaytimeOfInt(c) ==
    IF c.exc \in FormatCaught THEN Returns(Unknown)
    ELSE IF c.exc /= "" THEN Throws(c.exc)
    ELSE IF c.trunc > 0
      THEN Returns(PlaytimeText(HoursOf(c.trunc), MinutesOf(c.trunc)))
    ELSE Returns(<<"0", "h", " ", "0", "m">>)

format_playtime(seconds) ==
    IF seconds.t = "null" THEN Returns(Unknown)
    ELSE PlaytimeOfInt(PyIntOfFloat(seconds))

\* format_balance after the conversion c = int(float(balance_str))
BalanceOfInt(c) ==
    IF c.exc \in FormatCaught THEN Returns(Unknown)
    ELSE IF c.exc /= "" THEN Throws(c.exc)
    ELSE IF c.trunc > 0 THEN Returns(BalanceText(c.trunc))
    ELSE Returns(<<"$", "0">>)

format_balance(balance_str) ==
    IF balance_str.t = "null" THEN Returns(Unknown)
    ELSE BalanceOfInt(PyIntOfFloat(balance_str))

(***************************************************************************)
(* fetch_donutsmp_stats                                                    *)
(***************************************************************************)
\* what session.get() and response.json() can give: a network exception, or
\* a status with a body that is a JSON value or does not parse
NetworkError     == [kind |-> "exception"]
Http(status, b)  == [kind |-> "http", status |-> status, body |-> b]
Unparsable       == [t |-> "unparsable"]

\* the result of the call: the triple returned, or an exception left uncaught
Triple(p, b, v) == [exc |-> "", playtime |-> p, balance |-> b, valid |-> v]
Invalid         == Triple(Unknown, Unknown, FALSE)
Escapes(e)      == [exc |-> e, playtime |-> <<>>, balance |-> <<>>, valid |-> FALSE]

\* a slip in the status test: 401 handled as a success
IsOk_Mutant(status) == status \in {200, 401}

\* response.status == 200
IsOk(status) == status = 200

\* stats.get("playtime") or stats.get("Playtime") or stats.get("timePlayed") or 0
PlaytimeRaw(stats) ==
    PyOr(PyOr(PyOr(DictGet(stats, "playtime"), DictGet(stats, "Playtime")),
              DictGet(stats, "timePlayed")), JInt(0))

\* stats.get("money") or stats.get("Money") or stats.get("balance")
\*   or stats.get("Balance") or 0
BalanceRaw(stats) ==
    PyOr(PyOr(PyOr(PyOr(DictGet(stats, "money"), DictGet(stats, "Money")),
                   DictGet(stats, "balance")), DictGet(stats, "Balance")), JInt(0))

\* data.get("result", data)
LocateStats(data) == IF "result" \in DOMAIN data.m THEN data.m["result"] ELSE data

\* return playtime, balance, True, unless a formatter raised
ReturnStats(playtime, balance) ==
    IF playtime.exc /= "" THEN Escapes(playtime.exc)
    ELSE IF balance.exc /= "" THEN Escapes(balance.exc)
    ELSE Triple(playtime.val, balance.val, TRUE)

\* "if stats:" and its two branches; stats.get on what is no dict raises
OnStats(stats) ==
    IF ~Truthy(stats) THEN Invalid
    ELSE IF stats.t /= "obj" THEN Escapes("AttributeError")
    ELSE ReturnStats(format_playtime(PlaytimeRaw(stats)),
                     format_balance(BalanceRaw(stats)))

\* the body of the try block on a 200 response whose JSON parsed to data
OnData(data) ==
    IF ~Truthy(data) THEN Invalid
    ELSE IF data.t /= "obj" THEN Escapes("AttributeError")
    ELSE OnStats(LocateStats(data))

\* the try block: session.get, then the branches on response.status
TryBlock(resp) ==
    IF resp.kind = "exception" THEN Escapes("ClientError")
    ELSE IF IsOk(resp.status)
      THEN IF resp.body.t = "unparsable" THEN Escapes("JSONDecodeError")
           ELSE OnData(resp.body)
    ELSE Invalid

\* except Exception: every exception class raised in the try block is caught
FetchCaught(e) == TRUE

\* the except clause applied to the outcome of the try block
Catch(r) == IF r.exc /= "" /\ FetchCaught(r.exc) THEN Invalid ELSE r

\* the value fetch_donutsmp_stats gives its caller for one response
fetch_donutsmp_stats(resp) == Catch(TryBlock(resp))

(***************************************************************************)
(* parse_account_data                                                      *)
(***************************************************************************)
\* the labels of the two patterns, r'Username:\s*(\S+)' and
\* r'Session Token:\s*(\S+)'
UsernameLabel == <<"U", "s", "e", "r", "n", "a", "m", "e", ":">>
SessionLabel  == <<"S", "e", "s", "s", "i", "o", "n", " ",
                   "T", "o", "k", "e", "n", ":">>

\* None, for a pattern that matches nowhere (a match is never empty: \S+)
None == <<>>

\* the label compared exactly, as it is without re.IGNORECASE
LabelMatches_Mutant(text, label) == text = label

\* the label's characters match the text's, letter case ignored (re.IGNORECASE)
LabelMatches(text, label) == LowerText(text) = LowerText(label)

\* \s* : the first position at or after i that holds no whitespace
RECURSIVE SkipSpace(_, _)
SkipSpace(content, i) ==
    IF i <= Len(content) /\ content[i] \in Whitespace
    THEN SkipSpace(content, i + 1) ELSE i

\* (\S+) : the last position of the run without whitespace starting at i
RECURSIVE TokenEnd(_, _)
TokenEnd(content, i) ==
    IF i + 1 <= Len(content) /\ content[i + 1] \notin Whitespace
    THEN TokenEnd(content, i + 1) ELSE i

\* the positions where the whole pattern matches: the label, any whitespace,
\* then at least one character that is not whitespace
MatchStarts(content, label) ==
    {i \in 1..(Len(content) - Len(label) + 1) :
        /\ LabelMatches(SubSeq(content, i, i + Len(label) - 1), label)
        /\ SkipSpace(content, i + Len(label)) <= Len(content)}

\* the run without whitespace that starts at j
TokenAt(content, j) == SubSeq(content, j, TokenEnd(content, j))

Leftmost(starts) == CHOOSE x \in starts : \A y \in starts : x <= y

\* re.search(...).group(1), or None: the token of the leftmost match
Search(content, label) ==
    IF MatchStarts(content, label) = {} THEN None
    ELSE TokenAt(content,
                 SkipSpace(content, Leftmost(MatchStarts(content, label)) + Len(label)))

\* the pair (username, session) the function returns
parse_account_data(content) ==
    <<Search(content, UsernameLabel), Search(content, SessionLabel)>>

(***************************************************************************)
(* AccountView and the embeds of on_message                                *)
(***************************************************************************)
\* the backquote character, written by its name
Backquote == "backquote"

\* the value between two lines of three backquotes, as the callbacks send it
Fence(value) ==
    <<Backquote, Backquote, Backquote, "\n">> \o value
        \o <<"\n", Backquote, Backquote, Backquote>>

\* AccountView.__init__: the four values kept on the view, and its two buttons
AccountView(username, session_token, playtime, balance) ==
    [username |-> username, session_token |-> session_token,
     playtime |-> playtime, balance |-> balance,
     buttons |-> <<"Copy Session", "Copy IGN">>]

\* a message sent without view=
NoView == [username |-> <<>>, session_token |-> <<>>, playtime |-> <<>>,
           balance |-> <<>>, buttons |-> <<>>]

\* a slip in the callback: the other field of the view is revealed
session_callback_Mutant(view) == Fence(view.username)

\* session_callback: the text sent to the clicking user, ephemeral=True
session_callback(view) == Fence(view.session_token)

\* ign_callback: the text sent to the clicking user, ephemeral=True
ign_callback(view) == Fence(view.username)

NotValidText == <<" ", "i", "s", " ", "n", "o", "t", " ", "a", " ", "v", "a", "l", "i", "d", " ", "D", "o", "n", "u", "t", "S", "M", "P", " ", "A", "c", "c", "o", "u", "n", "t">>

\* f"**{username}**"
Bold(username) == <<"*", "*">> \o username \o <<"*", "*">>

\* the invalid-account embed sent with the buttons of a valid one
InvalidEmbed_Mutant(src, username) ==
    [src |-> src, title |-> "Account Found",
     description |-> Bold(username) \o NotValidText,
     color |-> "0x333333", fields |-> <<>>,
     view |-> AccountView(username, <<>>, Unknown, Unknown)]

\* the embed of the branch "if not valid": no field, no view
InvalidEmbed(src, username) ==
    [src |-> src, title |-> "Account Found",
     description |-> Bold(username) \o NotValidText,
     color |-> "0x333333", fields |-> <<>>, view |-> NoView]

\* the embed of a valid account, with its AccountView
ValidEmbed(src, username, session, playtime, balance) ==
    [src |-> src, title |-> "Account Found",
     description |-> Bold(username),
     color |-> "0x5865F2",
     fields |-> <<[name |-> "Playtime", value |-> playtime],
                  [name |-> "Balance", value |-> balance]>>,
     view |-> AccountView(username, session, playtime, balance)]

(***************************************************************************)
(* on_message and the lookup command                                       *)
(***************************************************************************)
\* the relay condition dropped to the channel test alone
IsRelayMessage_Mutant(message) == message.channel = "input"

\* message.channel.id == INPUT_CHANNEL_ID and message.webhook_id
IsRelayMessage(message) == message.channel = "input" /\ message.author = "webhook"

\* message.author.id == bot.user.id
IsOwnMessage(message) == message.author = "self"

LookupPrefix == <<"!", "l", "o", "o", "k", "u", "p">>

\* the argument of "!lookup <username>", or None when the text is no such
\* command or names nobody
LookupArg(content) ==
    IF /\ Len(content) > Len(LookupPrefix)
       /\ SubSeq(content, 1, Len(LookupPrefix)) = LookupPrefix
       /\ content[Len(LookupPrefix) + 1] \in Whitespace
       /\ SkipSpace(content, Len(LookupPrefix) + 1) <= Len(content)
    THEN TokenAt(content, SkipSpace(content, Len(LookupPrefix) + 1))
    ELSE None

\* a handler: where it stands, what it extracted, the requests it issued for
\* the relay and for the lookup command, the result of its fetch, the reply
\* the lookup command sent to the channel of the message, and the status its
\* request was answered with (0 for a network exception, -1 before)
Handler(pc, username, session, gets, lookups) ==
    [pc |-> pc, username |-> username, session |-> session,
     gets |-> gets, lookups |-> lookups,
     playtime |-> <<>>, balance |-> <<>>, valid |-> FALSE, reply |-> "none",
     status |-> -1]

\* bot.process_commands(message): messages of bots (a webhook is one) are
\* ignored; "!lookup <name>" from a user starts the lookup command's fetch
ProcessCommands(message) ==
    IF message.author = "human" /\ LookupArg(message.content) /= None
    THEN Handler("lookup_awaiting", LookupArg(message.content), None, 0, 1)
    ELSE Handler("done", None, None, 0, 0)

\* on_message up to its first suspension: the own-message test, the relay
\* test, the extraction with its early return, and the request of the fetch
\* "if not username or not session: return", else the fetch is started
AfterParse(parsed) ==
    IF parsed[1] = None \/ parsed[2] = None
    THEN Handler("done", parsed[1], parsed[2], 0, 0)
    ELSE Handler("awaiting", parsed[1], parsed[2], 1, 0)

OnMessage(message) ==
    IF IsOwnMessage(message) THEN Handler("done", None, None, 0, 0)
    ELSE IF IsRelayMessage(message)
      THEN AfterParse(parse_account_data(message.content))
    ELSE ProcessCommands(message)

\* the status a response carries
StatusOf(resp) == IF resp.kind = "exception" THEN 0 ELSE resp.status

\* the handler after "playtime, balance, valid = await fetch_donutsmp_stats()"
\* gave r; an exception leaving the fetch would end the handler
AfterFetch(h, r) ==
    IF r.exc /= "" THEN [h EXCEPT !.pc = "crashed"]
    ELSE [h EXCEPT !.pc = "fetched", !.playtime = r.playtime,
                   !.balance = r.balance, !.valid = r.valid]

\* the lookup command after its fetch gave r: one embed, "Invalid Account" or
\* "DonutSMP Stats - <username>", sent with ctx.send
AfterLookup(h, r) ==
    IF r.exc /= "" THEN [h EXCEPT !.pc = "crashed"]
    ELSE [h EXCEPT !.pc = "done", !.playtime = r.playtime,
                   !.balance = r.balance, !.valid = r.valid,
                   !.reply = IF r.valid THEN "DonutSMP Stats" ELSE "Invalid Account"]

\* what a click on a button sends: the callback's text, to the clicking user
\* alone (ephemeral=True)
Reveal(k, label, user, view) ==
    [button |-> label, msg |-> k, user |-> user,
     content |-> IF label = "Copy Session" THEN session_callback(view)
                 ELSE ign_callback(view),
     ephemeral |-> TRUE]

(***************************************************************************)
(* Module-level configuration, main, start_webserver, health_check         *)
(***************************************************************************)
\* an environment variable: absent, or set to a text
Absent    == [set |-> FALSE, val |-> <<>>]
SetTo(v)  == [set |-> TRUE, val |-> v]

\* int(os.environ.get(NAME, default)): the default when the variable is
\* absent, the number its digits denote, or a ValueError
EnvInt(e, default) ==
    IF ~e.set THEN Finite(default)
    ELSE IF Strip(e.val) /= <<>> /\ AllDigits(Strip(e.val))
      THEN Finite(DigitsValue(Strip(e.val)))
    ELSE Raised("ValueError")

\* the default of PORT
DefaultPort == 8080

\* "if not TOKEN", "if not API_KEY": absent, or set to the empty text
NotSet(e) == ~e.set \/ e.val = <<>>

\* "if not INPUT_CHANNEL_ID": the number read is 0
IsZero(c) == c.exc = "" /\ c.trunc = 0

\* the API key is never tested
ApiKeyMissing_Mutant(environ) == FALSE

\* if not API_KEY
ApiKeyMissing(environ) == NotSet(environ.API_KEY)

\* lines 14 to 27 in their order: the three int() conversions, then the four
\* tests; the text of the exception that ends the import, or "" when all pass
ModuleLevel(environ) ==
    IF EnvInt(environ.INPUT_CHANNEL_ID, 0).exc /= ""
      THEN "ValueError: INPUT_CHANNEL_ID"
    ELSE IF EnvInt(environ.OUTPUT_CHANNEL_ID, 0).exc /= ""
      THEN "ValueError: OUTPUT_CHANNEL_ID"
    ELSE IF EnvInt(environ.PORT, DefaultPort).exc /= ""
      THEN "ValueError: PORT"
    ELSE IF NotSet(environ.TOKEN)
      THEN "DISCORD_BOT_TOKEN environment variable not set"
    ELSE IF IsZero(EnvInt(environ.INPUT_CHANNEL_ID, 0))
      THEN "INPUT_CHANNEL_ID environment variable not set"
    ELSE IF IsZero(EnvInt(environ.OUTPUT_CHANNEL_ID, 0))
      THEN "OUTPUT_CHANNEL_ID environment variable not set"
    ELSE IF ApiKeyMissing(environ)
      THEN "DONUTSMP_API_KEY environment variable not set"
    ELSE ""

\* the routes of start_webserver answer GET with health_check
RoutesWithoutHealth_Mutant == {"/"}

\* app.router.add_get('/', ...), app.router.add_get('/health', ...)
Routes == {"/", "/health"}

\* web.Response(text="Bot is operational")
HealthText == "Bot is operational"

\* the server answers while its site is started and the event loop runs
Serving(process, server) ==
    process \in {"running", "closing"} /\ server.state = "listening"

\* what a GET receives: health_check's 200 on a route, 404 on any other
\* path, and no answer at all while nothing listens
HealthAnswer(route, process, server, gateway) ==
    [route |-> route,
     answer |-> IF ~Serving(process, server) THEN "refused"
                ELSE IF route \in Routes THEN "200" ELSE "404",
     text |-> IF Serving(process, server) /\ route \in Routes THEN HealthText ELSE "",
     gw |-> gateway, ppc |-> process, web |-> server.state]

(***************************************************************************)
(* Values the variables hold while the part they belong to is not running  *)
(***************************************************************************)
NotYet       == [exc |-> "pending", val |-> <<>>]
NotYetTriple == [exc |-> "pending", playtime |-> <<>>, balance |-> <<>>, valid |-> FALSE]
NoResponse   == [kind |-> "none"]
NoReveal     == [button |-> "none", msg |-> 0, user |-> "none", content |-> <<>>,
                 ephemeral |-> TRUE]
NoEnv        == <<>>
NoServer     == [state |-> "none", port |-> 0]
NoHealth     == [route |-> "none", answer |-> "none", text |-> "", gw |-> "none",
                 ppc |-> "none", web |-> "none"]

FmtIdle ==
    /\ fmtSec = 0 /\ fmtMoney = 0
    /\ fmtPlayOut = NotYet /\ fmtBalOut = NotYet /\ fmtViaFetch = NotYetTriple

ParseIdle == pBody = [in |-> <<>>, text |-> <<>>] /\ pParsed = <<>>

FetchIdle == fPc = "idle" /\ fResp = NoResponse /\ fGets = 0 /\ fResult = NotYetTriple

RelayIdle ==
    /\ inbox = <<>> /\ hs = <<>> /\ output = <<>> /\ outFound = TRUE
    /\ lastReveal = NoReveal /\ clicks = 0

ProcIdle ==
    /\ env = NoEnv /\ ppc = "off" /\ abortedBy = "" /\ web = NoServer /\ gw = "none"
    /\ health = NoHealth

(***************************************************************************)
(* The formatters applied to drawn numbers                                 *)
(***************************************************************************)
\* seconds given to format_playtime: around the minute, hour and
\* thousand-hour boundaries, and the non-positive ones
SecondsInputs ==
    {-61, 0, 1, 2, 59, 60, 61, 119, 3599, 3600, 3601, 3661, 7265, 86399, 86400,
     359999, 3599999, 3600000, 3600059, 360000000, 2147483647}

\* amounts given to format_balance: around the grouping boundaries
MoneyInputs ==
    {-5, 0, 1, 9, 10, 999, 1000, 1001, 12345, 891568, 999999, 1000000, 1500000,
     1234567890, 2147483647}

\* the HTTP 200 body {"result": {"playtime": s, "money": b}}
StatsBody(s, b) == JObj([result |-> JObj([playtime |-> JInt(s), money |-> JInt(b)])])

InitFormat ==
    /\ fmtSec \in SecondsInputs /\ fmtMoney \in MoneyInputs
    /\ fmtPlayOut = NotYet /\ fmtBalOut = NotYet /\ fmtViaFetch = NotYetTriple
    /\ ParseIdle /\ FetchIdle /\ RelayIdle /\ ProcIdle

ApplyFormatPlaytime ==
    /\ fmtPlayOut = NotYet
    /\ fmtPlayOut' = format_playtime(JInt(fmtSec))
    /\ UNCHANGED <<fmtSec, fmtMoney, fmtBalOut, fmtViaFetch>>
    /\ UNCHANGED <<parseVars, fetchVars, relayVars, procVars>>

ApplyFormatBalance ==
    /\ fmtBalOut = NotYet
    /\ fmtBalOut' = format_balance(JInt(fmtMoney))
    /\ UNCHANGED <<fmtSec, fmtMoney, fmtPlayOut, fmtViaFetch>>
    /\ UNCHANGED <<parseVars, fetchVars, relayVars, procVars>>

ApplyFetchToStatsBody ==
    /\ fmtViaFetch = NotYetTriple
    /\ fmtViaFetch' = fetch_donutsmp_stats(Http(200, StatsBody(fmtSec, fmtMoney)))
    /\ UNCHANGED <<fmtSec, fmtMoney, fmtPlayOut, fmtBalOut>>
    /\ UNCHANGED <<parseVars, fetchVars, relayVars, procVars>>

NextFormat == ApplyFormatPlaytime \/ ApplyFormatBalance \/ ApplyFetchToStatsBody

SpecFormat == InitFormat /\ [][NextFormat]_vars

\* ---- reading a formatted text back ----
StripCommas(t) == SelectSeq(t, LAMBDA c : c /= ",")

\* a decimal numeral: digits only, no leading zero
Canonical(d) == d /= <<>> /\ AllDigits(d) /\ (Len(d) = 1 \/ d[1] /= "0")

\* digits with a comma exactly before every third digit counted from the right
GroupedInThrees(t) ==
    /\ t /= <<>> /\ t[1] /= ","
    /\ \A k \in 1..Len(t) : (t[k] = ",") <=> ((Len(t) - k + 1) % 4 = 0)
    /\ Canonical(StripCommas(t))

\* "<hours>h <minutes>m": one "h", followed by a space, and a final "m"
HPos(t) == CHOOSE k \in 1..Len(t) : t[k] = "h"
PlaytimeShape(t) ==
    /\ Cardinality({k \in 1..Len(t) : t[k] = "h"}) = 1
    /\ HPos(t) + 2 < Len(t)
    /\ t[HPos(t) + 1] = " "
    /\ t[Len(t)] = "m"
HoursPart(t)   == SubSeq(t, 1, HPos(t) - 1)
MinutesPart(t) == SubSeq(t, HPos(t) + 2, Len(t) - 1)

PlaytimeDone == fmtPlayOut /= NotYet
BalanceDone  == fmtBalOut /= NotYet

\* the minutes and the bracket of seconds the claim states
MinutesAsClaimed(s, t) ==
    /\ Canonical(MinutesPart(t))
    /\ LET H == s \div 3600
           M == DigitsValue(MinutesPart(t))
       IN  /\ M = (s % 3600) \div 60
           /\ 0 <= M /\ M <= 59
           /\ 3600 * H + 60 * M <= s
           /\ s - 60 * M - 60 < 3600 * H

\* C5 as stated: format_playtime(s) is "<H>h <M>m" with H = s div 3600 written
\* as its decimal numeral and M = (s mod 3600) div 60, and format_balance(b) is
\* "$" followed by the digits of b grouped in threes by commas.
C5_AsStated ==
    /\ (PlaytimeDone /\ fmtSec > 0) =>
          /\ fmtPlayOut.exc = ""
          /\ PlaytimeShape(fmtPlayOut.val)
          /\ Canonical(HoursPart(fmtPlayOut.val))
          /\ DigitsValue(HoursPart(fmtPlayOut.val)) = fmtSec \div 3600
          /\ MinutesAsClaimed(fmtSec, fmtPlayOut.val)
    /\ (BalanceDone /\ fmtMoney > 0) =>
          /\ fmtBalOut.exc = ""
          /\ Head(fmtBalOut.val) = "$"
          /\ GroupedInThrees(Tail(fmtBalOut.val))
          /\ DigitsValue(StripCommas(Tail(fmtBalOut.val))) = fmtMoney

\* C5 (amended): for a positive integer s, format_playtime(s) is "<H>h <M>m"
\* where <H> is H = s div 3600 written with its digits grouped in threes by
\* commas (the plain numeral when H < 1000) and <M> is the numeral of
\* M = (s mod 3600) div 60, 0 <= M <= 59, 3600H + 60M <= s < 3600H + 60M + 60;
\* for a positive integer b, format_balance(b) is "$" followed by the digits of
\* b grouped in threes by commas; the body {"result": {"playtime": 7265,
\* "money": 1500000}} yields "2h 1m" and "$1,500,000".
C5_Format ==
    /\ (PlaytimeDone /\ fmtSec > 0) =>
          /\ fmtPlayOut.exc = ""
          /\ PlaytimeShape(fmtPlayOut.val)
          /\ GroupedInThrees(HoursPart(fmtPlayOut.val))
          /\ DigitsValue(StripCommas(HoursPart(fmtPlayOut.val))) = fmtSec \div 3600
          /\ MinutesAsClaimed(fmtSec, fmtPlayOut.val)
    /\ (BalanceDone /\ fmtMoney > 0) =>
          /\ fmtBalOut.exc = ""
          /\ Head(fmtBalOut.val) = "$"
          /\ GroupedInThrees(Tail(fmtBalOut.val))
          /\ DigitsValue(StripCommas(Tail(fmtBalOut.val))) = fmtMoney
    /\ (fmtViaFetch /= NotYetTriple /\ fmtSec = 7265 /\ fmtMoney = 1500000) =>
          /\ fmtViaFetch.valid
          /\ fmtViaFetch.playtime = <<"2", "h", " ", "1", "m">>
          /\ fmtViaFetch.balance = <<"$", "1", ",", "5", "0", "0", ",", "0", "0", "0">>

\* a thousand hours: the hours are written "1,000"
C5_Witness ==
    /\ fmtSec = 3600000 /\ fmtMoney = 1500000
    /\ fmtPlayOut = Returns(<<"1", ",", "0", "0", "0", "h", " ", "0", "m">>)
    /\ fmtBalOut = Returns(<<"$", "1", ",", "5", "0", "0", ",", "0", "0", "0">>)

(***************************************************************************)
(* One call of fetch_donutsmp_stats against drawn responses                *)
(***************************************************************************)
PlayKeys == <<"playtime", "Playtime", "timePlayed">>
BalKeys  == <<"money", "Money", "balance", "Balance">>
KeyOrder == PlayKeys \o BalKeys
AllKeys  == {KeyOrder[i] : i \in 1..Len(KeyOrder)}
KeyNumber(k) == CHOOSE i \in 1..Len(KeyOrder) : KeyOrder[i] = k

\* the number a key holds when it is set: a different one under each key, so
\* that the display tells which key was read
KeyValue(k) == JInt(3600 * KeyNumber(k) + 60)

\* a stats object in which each key is absent, holds 0, or holds its number
StatsOfChoice(c) ==
    JObj([k \in {x \in AllKeys : c[x] /= "absent"} |->
            IF c[k] = "zero" THEN JInt(0) ELSE KeyValue(k)])

FallbackStats == {StatsOfChoice(c) : c \in [AllKeys -> {"absent", "zero", "set"}]}

\* raw values that are not positive integers
OddRaws ==
    {JNull, JInt(-7), JFloat(8915681), JFloat(-5), JFloat(0), JInf, JNan, JHuge,
     JBool(TRUE), JBool(FALSE), JList(0), JList(2), JObj(<<>>),
     JStr(<<>>), JStr(<<"a", "b", "c">>), JStr(<<"i", "n", "f">>),
     JStr(<<"N", "a", "N">>), JStr(<<" ", "1", "2", " ">>), JStr(<<"3", ".", "9">>),
     JStr(<<"-", "5">>), JStr(<<"1", ",", "0", "0", "0">>)}

OddStats == {JObj([playtime |-> a, money |-> b]) : a \in OddRaws, b \in OddRaws}

\* bodies that are not a stats object, or hold none
ShapeBodies ==
    {JNull, JObj(<<>>), JList(0), JList(2), JStr(<<"e", "r", "r">>), JInt(5),
     JObj([result |-> JNull]), JObj([result |-> JObj(<<>>)]),
     JObj([result |-> JList(2)]), JObj([result |-> JStr(<<"x">>)]),
     JObj([result |-> JInt(5)]),
     JObj([result |-> JObj(<<>>), playtime |-> JInt(7265)])}

OkBodies ==
    {Unparsable} \cup ShapeBodies \cup FallbackStats \cup OddStats
        \cup {JObj([result |-> st]) : st \in FallbackStats \cup OddStats}

\* bodies sent with a status other than 200
ErrorBodies == {Unparsable, JNull, StatsBody(7265, 1500000),
                JObj([playtime |-> JInt(7265), money |-> JInt(1500000)])}

ErrorStatuses == {204, 401, 404, 429, 500, 503}

FetchResponses ==
    {NetworkError} \cup {Http(200, b) : b \in OkBodies}
        \cup {Http(st, b) : st \in ErrorStatuses, b \in ErrorBodies}

InitFetch == FetchIdle /\ FmtIdle /\ ParseIdle /\ RelayIdle /\ ProcIdle

\* session.get(stats_url, headers=headers): the one request of the call
FetchCall ==
    /\ fPc = "idle"
    /\ fPc' = "awaiting"
    /\ fGets' = fGets + 1
    /\ UNCHANGED <<fResp, fResult>>
    /\ UNCHANGED <<fmtVars, parseVars, relayVars, procVars>>

\* the response (or the exception) arrives and the call runs to its return
FetchReturn ==
    /\ fPc = "awaiting"
    /\ \E resp \in FetchResponses :
          /\ fResp' = resp
          /\ fResult' = fetch_donutsmp_stats(resp)
    /\ fPc' = "returned"
    /\ UNCHANGED fGets
    /\ UNCHANGED <<fmtVars, parseVars, relayVars, procVars>>

NextFetch == FetchCall \/ FetchReturn

SpecFetch == InitFetch /\ [][NextFetch]_vars

\* a 200 response whose body parsed as JSON
ParsedOk(resp) == resp.kind = "http" /\ resp.status = 200 /\ resp.body.t /= "unparsable"

\* C2: one call issues exactly one GET and never another; no exception leaves
\* the call; and unless the response is a 200 whose body parsed, the result is
\* ("Unknown", "Unknown", False): for 401 whatever the body, for 500, for any
\* other status, for a 200 body that does not parse, for a network exception.
C2_Fetch ==
    /\ fGets <= 1
    /\ (fPc \in {"awaiting", "returned"}) => fGets = 1
    /\ (fPc = "returned") =>
          /\ fResult.exc = ""
          /\ ~ParsedOk(fResp) =>
                /\ fResult.playtime = Unknown
                /\ fResult.balance = Unknown
                /\ fResult.valid = FALSE

\* a 401 that carries a well-formed stats body is answered invalid
C2_Witness ==
    /\ fPc = "returned" /\ fGets = 1
    /\ fResp = Http(401, StatsBody(7265, 1500000))
    /\ fResult = Invalid

\* the located stats object of a parsed 200 body is a non-empty object
LocatedNonEmpty(resp) ==
    /\ ParsedOk(resp) /\ resp.body.t = "obj" /\ Truthy(resp.body)
    /\ LocateStats(resp.body).t = "obj"
    /\ Truthy(LocateStats(resp.body))

\* the located stats object is empty or null
LocatedEmpty(resp) ==
    /\ ParsedOk(resp)
    /\ \/ ~Truthy(resp.body)
       \/ resp.body.t = "obj" /\ ~Truthy(LocateStats(resp.body))

\* the first truthy value under the keys, in order, else 0
RECURSIVE FirstTruthy(_, _)
FirstTruthy(stats, keys) ==
    IF keys = <<>> THEN JInt(0)
    ELSE IF Head(keys) \in DOMAIN stats.m /\ Truthy(stats.m[Head(keys)])
      THEN stats.m[Head(keys)]
    ELSE FirstTruthy(stats, Tail(keys))

\* a raw value float() can read as a number
Numeric(j) ==
    \/ j.t \in {"int", "float", "bool"}
    \/ j.t = "str" /\ PyFloatStr(j.s).exc = "" /\ PyFloatStr(j.s).kind = "finite"

\* C10 as stated: on a 200 whose located stats object is non-empty the result
\* is always valid, the raw values being the first truthy of the keys in order
\* (default 0), and a non-numeric raw value displays as "Unknown" while the
\* result stays valid; when the located stats object is empty or null the
\* result is invalid.
C10_AsStated ==
    (fPc = "returned") =>
        /\ LocatedNonEmpty(fResp) =>
              LET stats == LocateStats(fResp.body)
                  praw  == FirstTruthy(stats, PlayKeys)
                  braw  == FirstTruthy(stats, BalKeys)
              IN  /\ fResult.valid
                  /\ ~Numeric(praw) => fResult.playtime = Unknown
                  /\ ~Numeric(braw) => fResult.balance = Unknown
                  /\ praw = JInt(0) => fResult.playtime = <<"0", "h", " ", "0", "m">>
                  /\ braw = JInt(0) => fResult.balance = <<"$", "0">>
        /\ LocatedEmpty(fResp) => ~fResult.valid

(***************************************************************************)
(* parse_account_data applied to drawn message bodies                      *)
(***************************************************************************)
UuidLabel == <<"U", "U", "I", "D", ":">>

FieldLabel(f) ==
    CASE f = "username" -> UsernameLabel
      [] f = "uuid"     -> UuidLabel
      [] f = "session"  -> SessionLabel

\* a label as written, in capitals, or in small letters
Styled(label, style) ==
    CASE style = "asis"  -> label
      [] style = "upper" -> UpperText(label)
      [] style = "lower" -> LowerText(label)

Styles == {"asis", "upper", "lower"}

\* the orders in which the three fields can stand
FieldOrders ==
    {o \in [1..3 -> {"username", "uuid", "session"}] :
        \A a, b \in 1..3 : a /= b => o[a] /= o[b]}

UsernameValues == {<<"S", "t", "e", "v", "e">>, <<"x", "_", "1">>}
\* the second identifier holds the text of a label
UuidValues     == {<<"a", "b", "-", "1", "2">>,
                   <<"u", "s", "e", "r", "n", "a", "m", "e", ":", "z", "z">>}
SessionValues  == {<<"e", "y", "J", ".", "A">>}

\* what stands between a label and its value, and between two fields
Gaps       == {<<>>, <<" ">>, <<"\n">>}
Separators == {<<"\n">>, <<" ">>}
Preambles  == {<<>>, <<"H", "i", "t", "!", "\n">>}

\* the UUID label stands as written; the two labels the patterns look for
\* take the drawn letter case
StyleOf(f, in) == IF f = "uuid" THEN "asis" ELSE in.style[f]

FieldText(f, in) ==
    Styled(FieldLabel(f), StyleOf(f, in)) \o in.gap \o in.value[f]

\* the message body: the preamble, then the three fields in the drawn order
BodyText(in) ==
    in.pre \o FieldText(in.order[1], in) \o in.sep
           \o FieldText(in.order[2], in) \o in.sep
           \o FieldText(in.order[3], in)

ParseInputs ==
    {[order |-> o, style |-> st, gap |-> g, sep |-> sp, pre |-> pr,
      value |-> [username |-> x, uuid |-> y, session |-> z]] :
        o \in FieldOrders, st \in [{"username", "session"} -> Styles],
        g \in Gaps, sp \in Separators, pr \in Preambles,
        x \in UsernameValues, y \in UuidValues, z \in SessionValues}

NotParsed == <<"pending">>

InitParse ==
    /\ \E in \in ParseInputs : pBody = [in |-> in, text |-> BodyText(in)]
    /\ pParsed = NotParsed
    /\ FmtIdle /\ FetchIdle /\ RelayIdle /\ ProcIdle

ApplyParse ==
    /\ pParsed = NotParsed
    /\ pParsed' = parse_account_data(pBody.text)
    /\ UNCHANGED pBody
    /\ UNCHANGED <<fmtVars, fetchVars, relayVars, procVars>>

NextParse == ApplyParse

SpecParse == InitParse /\ [][NextParse]_vars

\* the text holds the label somewhere, in any letter case
HoldsLabel(text, label) ==
    \E i \in 1..(Len(text) - Len(label) + 1) :
        LowerText(SubSeq(text, i, i + Len(label) - 1)) = LowerText(label)

\* no value of the body holds the text of a pattern's label
ValuesHoldNoLabel(in) ==
    \A f \in {"username", "uuid", "session"} :
        /\ ~HoldsLabel(in.value[f], UsernameLabel)
        /\ ~HoldsLabel(in.value[f], SessionLabel)

\* C6 as stated: for a body holding "Username: X", "UUID: Y" and
\* "Session Token: Z" in any order and letter case, extraction returns exactly
\* the three values X, Y and Z.
C6_AsStated ==
    (pParsed /= NotParsed) =>
        pParsed = <<pBody.in.value["username"], pBody.in.value["uuid"],
                    pBody.in.value["session"]>>

\* C6 (amended): for a body holding the three labelled fields in any order and
\* letter case, none of whose values holds the text of a label, extraction
\* returns exactly two values, the username X and the session token Z, each the
\* first whitespace-delimited token after its label; the UUID is not extracted.
C6_Parse ==
    (pParsed /= NotParsed /\ ValuesHoldNoLabel(pBody.in)) =>
        /\ Len(pParsed) = 2
        /\ pParsed[1] = pBody.in.value["username"]
        /\ pParsed[2] = pBody.in.value["session"]

\* session first, username last, labels in capitals, the value on the next line
C6_Witness ==
    /\ pBody.in.order = <<"session", "uuid", "username">>
    /\ pBody.in.style["username"] = "upper" /\ pBody.in.style["session"] = "upper"
    /\ pBody.in.gap = <<"\n">>
    /\ ValuesHoldNoLabel(pBody.in)
    /\ pParsed = <<pBody.in.value["username"], pBody.in.value["session"]>>

(***************************************************************************)
(* The bot: messages delivered by the gateway, their handlers, clicks      *)
(***************************************************************************)
\* messages delivered in one run
MaxMsgs == 2

\* button clicks in one run
MaxClicks == 1

BodySteve   == <<"U", "s", "e", "r", "n", "a", "m", "e", ":", " ", "S", "t", "e", "v", "e", "\n", "S", "e", "s", "s", "i", "o", "n", " ", "T", "o", "k", "e", "n", ":", " ", "e", "y", "J", ".", "A">>
BodyAlex    == <<"s", "e", "s", "s", "i", "o", "n", " ", "t", "o", "k", "e", "n", ":", " ", "t", "0", "k", " ", "U", "U", "I", "D", ":", " ", "a", "b", "-", "1", "2", " ", "U", "S", "E", "R", "N", "A", "M", "E", ":", " ", "A", "l", "e", "x">>
BodyNoToken == <<"U", "s", "e", "r", "n", "a", "m", "e", ":", " ", "S", "t", "e", "v", "e", "\n", "U", "U", "I", "D", ":", " ", "a", "b", "-", "1", "2">>
BodyNoUser  == <<"U", "U", "I", "D", ":", " ", "a", "b", "-", "1", "2", "\n", "S", "e", "s", "s", "i", "o", "n", " ", "T", "o", "k", "e", "n", ":", " ", "e", "y", "J", ".", "A">>
BodyLookup  == <<"!", "l", "o", "o", "k", "u", "p", " ", "S", "t", "e", "v", "e">>

\* what a webhook posts: two complete bodies, one without the session label,
\* one without the username label, and a command text
WebhookBodies == {BodySteve, BodyAlex, BodyNoToken, BodyNoUser, BodyLookup}

\* the messages the gateway delivers: the bot's own, a user's, a webhook's;
\* webhook_id is set exactly on a webhook's message, whose author is never
\* the bot's own user
Messages ==
    {[author |-> "self", channel |-> "input", content |-> BodySteve]}
    \cup {[author |-> "human", channel |-> "input", content |-> b] :
            b \in {BodySteve, BodyLookup}}
    \cup {[author |-> "webhook", channel |-> "input", content |-> b] : b \in WebhookBodies}
    \cup {[author |-> "webhook", channel |-> "other", content |-> BodySteve]}

\* what the stats API answers a handler
RelayResponses ==
    {NetworkError,
     Http(200, StatsBody(7265, 1500000)),
     Http(200, JObj([result |-> JObj([playtime |-> JStr(<<"i", "n", "f">>)])])),
     Http(200, JObj(<<>>)),
     Http(401, StatsBody(7265, 1500000)),
     Http(500, JNull)}

Users == {"u1", "u2"}

\* on_message and fetch_donutsmp_stats depend on their argument alone: what
\* they give for each message and each response, computed once
FirstStep  == [message \in Messages |-> OnMessage(message)]
FetchGives == [resp \in RelayResponses |-> fetch_donutsmp_stats(resp)]

\* bot.get_channel(OUTPUT_CHANNEL_ID) finds the channel or gives None; which,
\* is fixed by the configured identifier and what the bot can see
Init ==
    /\ inbox = <<>> /\ hs = <<>> /\ output = <<>>
    /\ outFound \in BOOLEAN
    /\ lastReveal = NoReveal /\ clicks = 0
    /\ FmtIdle /\ ParseIdle /\ FetchIdle /\ ProcIdle

\* the gateway delivers a message; its handler runs to its first suspension
Deliver ==
    /\ Len(inbox) < MaxMsgs
    /\ \E message \in Messages :
          /\ inbox' = Append(inbox, message)
          /\ hs' = Append(hs, FirstStep[message])
    /\ UNCHANGED <<output, outFound, lastReveal, clicks>>
    /\ UNCHANGED <<fmtVars, parseVars, fetchVars, procVars>>

\* the handler's own request is over, so the event loop can resume it
\* (handlers are resumed one behind the other)
Ready_Mutant(i) ==
    /\ hs[i].pc = "fetched"
    /\ \A j \in 1..(i - 1) : hs[j].pc /= "awaiting"

\* the handler's own request is over, so the event loop can resume it
Ready(i) == hs[i].pc = "fetched"

\* playtime, balance, valid = await fetch_donutsmp_stats(username): the
\* response of handler i's request arrives and its fetch returns
FetchReturns(i) ==
    /\ i \in 1..Len(hs) /\ hs[i].pc = "awaiting"
    /\ \E resp \in RelayResponses :
          hs' = [hs EXCEPT ![i] = AfterFetch([@ EXCEPT !.status = StatusOf(resp)],
                                             FetchGives[resp])]
    /\ UNCHANGED <<inbox, output, outFound, lastReveal, clicks>>
    /\ UNCHANGED <<fmtVars, parseVars, fetchVars, procVars>>

\* the embed on_message builds from the result of the fetch
EmbedOf(i) ==
    IF ~hs[i].valid THEN InvalidEmbed(i, hs[i].username)
    ELSE ValidEmbed(i, hs[i].username, hs[i].session, hs[i].playtime, hs[i].balance)

\* on_message after the fetch: the output channel is looked up; without it the
\* handler logs and returns; with it the invalid-account embed or the account
\* embed with its view is sent, and a send that Discord refuses raises out of
\* the handler
Publish(i) ==
    /\ i \in 1..Len(hs) /\ Ready(i)
    /\ \/ /\ ~outFound
          /\ hs' = [hs EXCEPT ![i].pc = "done"]
          /\ output' = output
       \/ /\ outFound
          /\ hs' = [hs EXCEPT ![i].pc = "done"]
          /\ output' = Append(output, EmbedOf(i))
       \/ /\ outFound
          /\ hs' = [hs EXCEPT ![i].pc = "raised"]
          /\ output' = output
    /\ UNCHANGED <<inbox, outFound, lastReveal, clicks>>
    /\ UNCHANGED <<fmtVars, parseVars, fetchVars, procVars>>

\* the lookup command after its fetch: one embed sent with ctx.send to the
\* channel the command came from
LookupReturns(i) ==
    /\ i \in 1..Len(hs) /\ hs[i].pc = "lookup_awaiting"
    /\ \E resp \in RelayResponses :
          hs' = [hs EXCEPT ![i] = AfterLookup([@ EXCEPT !.status = StatusOf(resp)],
                                              FetchGives[resp])]
    /\ UNCHANGED <<inbox, output, outFound, lastReveal, clicks>>
    /\ UNCHANGED <<fmtVars, parseVars, fetchVars, procVars>>

\* a user clicks a button of a published message: the button's callback
\* answers that user alone
Click ==
    /\ clicks < MaxClicks
    /\ \E k \in 1..Len(output), user \in Users :
          \E b \in 1..Len(output[k].view.buttons) :
              lastReveal' = Reveal(k, output[k].view.buttons[b], user, output[k].view)
    /\ clicks' = clicks + 1
    /\ UNCHANGED <<inbox, hs, output, outFound>>
    /\ UNCHANGED <<fmtVars, parseVars, fetchVars, procVars>>

Next ==
    \/ Deliver
    \/ \E i \in 1..MaxMsgs : FetchReturns(i)
    \/ \E i \in 1..MaxMsgs : Publish(i)
    \/ \E i \in 1..MaxMsgs : LookupReturns(i)
    \/ Click

Spec == Init /\ [][Next]_vars

\* the event loop resumes every handler whose awaited call has completed;
\* nothing makes the stats API answer
FairSpec == Init /\ [][Next]_vars /\ \A i \in 1..MaxMsgs : WF_vars(Publish(i))

(***************************************************************************)
(* The process: import, main, the liveness server, the gateway             *)
(***************************************************************************)
Envs ==
    [TOKEN : {Absent, SetTo(<<>>), SetTo(<<"t", "o", "k">>)},
     INPUT_CHANNEL_ID : {Absent, SetTo(<<"0">>), SetTo(<<"1", "2", "3">>),
                         SetTo(<<"a", "b", "c">>)},
     OUTPUT_CHANNEL_ID : {Absent, SetTo(<<"4", "5", "6">>)},
     PORT : {Absent, SetTo(<<"9", "0", "0", "0">>), SetTo(<<"a", "b", "c">>)},
     API_KEY : {Absent, SetTo(<<"k", "e", "y">>)}]

InitProcess ==
    /\ env \in Envs
    /\ ppc = "start" /\ abortedBy = "" /\ web = NoServer /\ gw = "none"
    /\ health = NoHealth
    /\ FmtIdle /\ ParseIdle /\ FetchIdle /\ RelayIdle

\* the module is imported: the configuration is read and tested
Import ==
    /\ ppc = "start"
    /\ abortedBy' = ModuleLevel(env)
    /\ ppc' = IF ModuleLevel(env) /= "" THEN "aborted" ELSE "configured"
    /\ UNCHANGED <<env, web, gw, health>>
    /\ UNCHANGED <<fmtVars, parseVars, fetchVars, relayVars>>

\* asyncio.run(main()): the server task is created, then bot.start is awaited
Main ==
    /\ ppc = "configured"
    /\ ppc' = "running"
    /\ web' = [state |-> "scheduled", port |-> EnvInt(env.PORT, DefaultPort).trunc]
    /\ gw' = "logging_in"
    /\ UNCHANGED <<env, abortedBy, health>>
    /\ UNCHANGED <<fmtVars, parseVars, fetchVars, relayVars>>

\* start_webserver runs: the site starts listening, or the port cannot be
\* bound and the task ends with an exception nobody awaits
WebServerStarts ==
    /\ ppc = "running" /\ web.state = "scheduled"
    /\ \E outcome \in {"listening", "failed"} : web' = [web EXCEPT !.state = outcome]
    /\ UNCHANGED <<env, ppc, abortedBy, gw, health>>
    /\ UNCHANGED <<fmtVars, parseVars, fetchVars, relayVars>>

\* bot.start: the login succeeds and the gateway connects
LoginSucceeds ==
    /\ ppc = "running" /\ gw = "logging_in"
    /\ gw' = "connected"
    /\ UNCHANGED <<env, ppc, abortedBy, web, health>>
    /\ UNCHANGED <<fmtVars, parseVars, fetchVars, relayVars>>

\* bot.start raises LoginFailure: "async with bot" closes the bot and the
\* exception leaves main
LoginFails ==
    /\ ppc = "running" /\ gw = "logging_in"
    /\ gw' = "login_failed"
    /\ ppc' = "closing"
    /\ UNCHANGED <<env, abortedBy, web, health>>
    /\ UNCHANGED <<fmtVars, parseVars, fetchVars, relayVars>>

\* asyncio.run ends with the exception: the loop is closed, its tasks with it
Exit ==
    /\ ppc = "closing"
    /\ ppc' = "exited"
    /\ web' = [web EXCEPT !.state = "stopped"]
    /\ UNCHANGED <<env, abortedBy, gw, health>>
    /\ UNCHANGED <<fmtVars, parseVars, fetchVars, relayVars>>

\* the gateway connection drops; the library reconnects
Disconnect ==
    /\ ppc = "running" /\ gw = "connected"
    /\ gw' = "disconnected"
    /\ UNCHANGED <<env, ppc, abortedBy, web, health>>
    /\ UNCHANGED <<fmtVars, parseVars, fetchVars, relayVars>>

Reconnect ==
    /\ ppc = "running" /\ gw = "disconnected"
    /\ gw' = "connected"
    /\ UNCHANGED <<env, ppc, abortedBy, web, health>>
    /\ UNCHANGED <<fmtVars, parseVars, fetchVars, relayVars>>

\* the hosting platform probes the process, at any time
HealthRequest ==
    /\ \E route \in {"/", "/health", "/metrics"} :
          health' = HealthAnswer(route, ppc, web, gw)
    /\ UNCHANGED <<env, ppc, abortedBy, web, gw>>
    /\ UNCHANGED <<fmtVars, parseVars, fetchVars, relayVars>>

NextProcess ==
    \/ Import \/ Main \/ WebServerStarts \/ LoginSucceeds \/ LoginFails \/ Exit
    \/ Disconnect \/ Reconnect \/ HealthRequest

SpecProcess == InitProcess /\ [][NextProcess]_vars

Required == {"TOKEN", "INPUT_CHANNEL_ID", "OUTPUT_CHANNEL_ID", "API_KEY"}

\* the process ended at import, before main: nothing was opened or started
AbortedAtImport == ppc = "aborted" /\ web = NoServer /\ gw = "none"

\* C8 as stated: all five values are required; if any one of them is absent
\* the process aborts before the gateway connection is opened and before the
\* liveness server starts listening.
C8_AsStated ==
    (ppc /= "start" /\ \E k \in Required \cup {"PORT"} : ~env[k].set)
        => AbortedAtImport

\* C8 (amended): four values are required (bot token, input channel
\* identifier, output channel identifier, stats API key): if any one of them is
\* absent the process aborts at import, before the gateway connection is
\* opened and before the liveness server is started; the listen port is not
\* required: when it is absent the server listens on 8080.
C8_Startup ==
    /\ (ppc /= "start" /\ \E k \in Required : ~env[k].set) => AbortedAtImport
    /\ (ppc = "aborted") => AbortedAtImport /\ abortedBy /= ""
    /\ (ppc /= "start" /\ ~env.PORT.set /\ \A k \in Required : ~NotSet(env[k])
            /\ ModuleLevel(env) = "")
          => /\ ppc /= "aborted"
             /\ web.state /= "none" => web.port = 8080

\* only the API key is absent, and the import has ended the process
C8_Witness ==
    /\ ~env.API_KEY.set
    /\ \A k \in {"TOKEN", "INPUT_CHANNEL_ID", "OUTPUT_CHANNEL_ID", "PORT"} : env[k].set
    /\ ppc = "aborted"
    /\ abortedBy = "DONUTSMP_API_KEY environment variable not set"

Probed == health /= NoHealth /\ health.route \in {"/", "/health"}

\* C9 as stated: in every state of the running process, whatever the state of
\* the gateway, GET / and GET /health are answered 200 with the same
\* non-empty text.
C9_AsStated ==
    (Probed /\ health.ppc \in {"running", "closing", "exited"})
        => health.answer = "200" /\ health.text = HealthText

\* C9 (amended): whenever the liveness server is listening, GET / and GET
\* /health are answered 200 with the same non-empty constant text, whatever
\* the state of the gateway (logging in, connected, disconnected, login
\* failed and closing); a request is not answered before start_webserver has
\* started the site, when the port could not be bound, or after a failed
\* login has ended the process.
C9_Health ==
    Probed =>
        /\ (health.web = "listening" /\ health.ppc \in {"running", "closing"})
              => health.answer = "200" /\ health.text = HealthText /\ HealthText /= ""
        /\ (health.web /= "listening" \/ health.ppc \notin {"running", "closing"})
              => health.answer = "refused"

\* /health answered 200 while the gateway is disconnected
C9_Witness ==
    /\ health.route = "/health" /\ health.answer = "200"
    /\ health.gw = "disconnected" /\ gw = "disconnected"

\* the messages of the output channel that handler i published
PublishedBy(i) == {k \in 1..Len(output) : output[k].src = i}

\* what parse_account_data extracts from each message body, and the labels
\* each body holds
ParsedBody == [b \in WebhookBodies |-> parse_account_data(b)]
LabelsOfBody ==
    [b \in WebhookBodies |->
        [username |-> HoldsLabel(b, UsernameLabel), session |-> HoldsLabel(b, SessionLabel)]]

\* message i passed the relay tests and both values were extracted from it
Accepted(i) ==
    /\ inbox[i].author = "webhook" /\ inbox[i].channel = "input"
    /\ ParsedBody[inbox[i].content][1] /= None
    /\ ParsedBody[inbox[i].content][2] /= None

\* C1: a relay request is issued, or a message published to the output
\* channel, only for a message that a webhook posted in the input channel,
\* that the bot did not write, and from which both a username and a session
\* token were extracted; a webhook message in the input channel without the
\* username label or without the session label gets no request and no
\* response.
C1_Relay ==
    \A i \in 1..Len(inbox) :
        /\ (hs[i].gets > 0 \/ PublishedBy(i) /= {} \/ hs[i].pc \in {"awaiting", "fetched"})
              => /\ inbox[i].author = "webhook"
                 /\ inbox[i].channel = "input"
                 /\ inbox[i].author /= "self"
                 /\ ParsedBody[inbox[i].content][1] /= None
                 /\ ParsedBody[inbox[i].content][2] /= None
        /\ (/\ inbox[i].author = "webhook" /\ inbox[i].channel = "input"
            /\ \/ ~LabelsOfBody[inbox[i].content].username
               \/ ~LabelsOfBody[inbox[i].content].session)
              => /\ hs[i].pc = "done"
                 /\ hs[i].gets = 0 /\ hs[i].lookups = 0
                 /\ PublishedBy(i) = {}

\* a webhook body without the session label was dropped, while the complete
\* body delivered after it was relayed
C1_Witness ==
    /\ Len(inbox) = 2 /\ Len(output) = 1
    /\ inbox[1] = [author |-> "webhook", channel |-> "input", content |-> BodyNoToken]
    /\ hs[1].pc = "done" /\ hs[1].gets = 0 /\ PublishedBy(1) = {}
    /\ hs[2].gets = 1 /\ PublishedBy(2) = {1}

\* the text holds the other text somewhere
Contains(text, part) ==
    \E k \in 1..(Len(text) - Len(part) + 1) : SubSeq(text, k, k + Len(part) - 1) = part

\* the message published for a valid account
ValidShape(e, h) ==
    /\ e.title = "Account Found"
    /\ Contains(e.description, h.username)
    /\ ~Contains(e.description, NotValidText)
    /\ Len(e.fields) = 2
    /\ e.fields[1] = [name |-> "Playtime", value |-> h.playtime]
    /\ e.fields[2] = [name |-> "Balance", value |-> h.balance]
    /\ e.view.buttons = <<"Copy Session", "Copy IGN">>

\* the shorter message published for an invalid account
InvalidShape(e, h) ==
    /\ Contains(e.description, h.username)
    /\ Contains(e.description, NotValidText)
    /\ e.fields = <<>>
    /\ e.view.buttons = <<>>

ShapedBy(i) ==
    \A k \in PublishedBy(i) :
        IF hs[i].valid THEN ValidShape(output[k], hs[i]) ELSE InvalidShape(output[k], hs[i])

\* C3 as stated: for every accepted message the handler publishes exactly one
\* message to the output channel after the enrichment call returns, with the
\* fields and the buttons when the enrichment is valid, the shorter message
\* without fields and buttons when it is invalid (an HTTP 500 included).
C3_AsStated ==
    \A i \in 1..Len(inbox) :
        Accepted(i) =>
            /\ hs[i].pc \in {"awaiting", "fetched"} => PublishedBy(i) = {}
            /\ hs[i].pc = "done" => Cardinality(PublishedBy(i)) = 1
            /\ ShapedBy(i)
            /\ hs[i].status /= 200 => ~hs[i].valid

\* C3 (amended): for every accepted message, after the enrichment call
\* returns, the handler publishes exactly one message to the output channel
\* when bot.get_channel finds that channel and Discord accepts the send, and
\* none when the channel is not found (it logs the error and returns) or the
\* send raises; nothing is published before the call returns; the published
\* message has the fields and the buttons when the enrichment is valid, and is
\* the shorter message without fields and buttons when it is invalid (an HTTP
\* 500 included).
C3_Publish ==
    \A i \in 1..Len(inbox) :
        Accepted(i) =>
            /\ hs[i].pc \in {"awaiting", "fetched"} => PublishedBy(i) = {}
            /\ hs[i].pc = "done" =>
                  Cardinality(PublishedBy(i)) = IF outFound THEN 1 ELSE 0
            /\ hs[i].pc = "raised" => (outFound /\ PublishedBy(i) = {})
            /\ hs[i].pc \in {"awaiting", "fetched", "done", "raised"}
            /\ ShapedBy(i)
            /\ hs[i].status /= 200 => ~hs[i].valid

\* an HTTP 500 answered by the one short message, and a valid account by the
\* one message with its two fields and two buttons
C3_Witness ==
    /\ outFound /\ Len(inbox) = 2 /\ Len(output) = 2
    /\ hs[1].pc = "done" /\ hs[1].status = 500 /\ PublishedBy(1) = {1}
    /\ output[1].view.buttons = <<>> /\ output[1].fields = <<>>
    /\ hs[2].pc = "done" /\ hs[2].valid /\ PublishedBy(2) = {2}
    /\ Len(output[2].view.buttons) = 2 /\ Len(output[2].fields) = 2

\* C4: a click reveals, to the clicking user alone (an ephemeral reply, never
\* a message of the channel), exactly the value bound when the clicked
\* response was built: "Copy Session" the session token and "Copy IGN" the
\* username extracted from the message that produced that response, whatever
\* other messages were handled before, after or meanwhile.
C4_Reveal ==
    /\ clicks <= MaxClicks
    /\ (lastReveal /= NoReveal) =>
          /\ lastReveal.ephemeral
          /\ lastReveal.user \in Users
          /\ lastReveal.msg \in 1..Len(output)
          /\ LET src == ParsedBody[inbox[output[lastReveal.msg].src].content]
             IN  /\ lastReveal.button = "Copy Session" =>
                      lastReveal.content = Fence(src[2])
                 /\ lastReveal.button = "Copy IGN" =>
                      lastReveal.content = Fence(src[1])
                 /\ lastReveal.button \in {"Copy Session", "Copy IGN"}
    /\ \A k \in 1..Len(output) :
          /\ output[k].src \in 1..Len(inbox)
          /\ PublishedBy(output[k].src) = {k}

\* two accounts relayed, the second message answered first; the click on the
\* first published response reveals the session of the second message
C4_Witness ==
    /\ Len(output) = 2 /\ output[1].src = 2 /\ output[2].src = 1
    /\ inbox[1].content = BodySteve /\ inbox[2].content = BodyAlex
    /\ lastReveal.msg = 1 /\ lastReveal.button = "Copy Session"
    /\ lastReveal.content = Fence(<<"t", "0", "k">>)

\* no handler waits for another: a delivery, the return of a fetch and the
\* publication of a response are each possible whatever the others are doing
NoBlocking ==
    /\ Len(inbox) < MaxMsgs => ENABLED Deliver
    /\ \A i \in 1..Len(hs) :
          /\ hs[i].pc = "awaiting" => ENABLED FetchReturns(i)
          /\ hs[i].pc = "fetched" => ENABLED Publish(i)

\* C7 as stated: every message whose own stats request returns eventually
\* gets its response, regardless of other handlers.
C7_AsStated ==
    \A i \in 1..MaxMsgs :
        (Len(hs) >= i /\ hs[i].pc = "fetched") ~> (Len(hs) >= i /\ PublishedBy(i) /= {})

\* C7 (amended): a slow, stalled or failed stats request blocks only its own
\* handler: while a handler awaits its response other messages can be
\* delivered, fetched and published; every message whose own request returns
\* eventually has its handler finished, with its response published when
\* bot.get_channel finds the output channel and Discord accepts the send
\* (none is published otherwise); responses may be published in another order
\* than the messages came.
C7_Independent ==
    /\ []NoBlocking
    /\ \A i \in 1..MaxMsgs :
          (Len(hs) >= i /\ hs[i].pc = "fetched")
              ~> (/\ Len(hs) >= i /\ hs[i].pc \in {"done", "raised"}
                  /\ (outFound /\ hs[i].pc = "done") => PublishedBy(i) /= {})

\* the first message still awaits its stats response while the second, which
\* came after it, has its response published
C7_Witness ==
    /\ Len(inbox) = 2
    /\ hs[1].pc = "awaiting" /\ PublishedBy(1) = {}
    /\ hs[2].pc = "done" /\ PublishedBy(2) = {1}

=============================================================================
